---- MODULE Spec2Model ----
(***************************************************************************)
(* A model of functions.py of color_vision: the photodiode stimulus-onset  *)
(* extraction (get_stim_samples_fh, get_stim_samples_pg), the spike binner, *)
(* the null shuffler and the correlogram engine of xcorr_sp, and the        *)
(* timestamp based xcorr.                                                   *)
(*                                                                         *)
(* Python sequences are modelled as TLA+ sequences; a Python position p is  *)
(* the TLA+ position p + 1.  Sample offsets, amplitudes and counts are      *)
(* integers (numpy int64: no overflow is reachable at these magnitudes).    *)
(***************************************************************************)
EXTENDS Integers, Sequences, FiniteSets, TLC

VARIABLES
    \* ---- get_stim_samples_fh / get_stim_samples_pg
    pc,           \* "input" before the call, "fh" / "pg" after the call of that function
    wave,         \* the local maxima of the photodiode segment: <<[s |-> sample, v |-> amplitude]>>
    start_time,   \* the start_time argument (minutes)
    end_time,     \* the end_time argument: << >> when omitted (None), <<t>> when given
    cut_start,    \* the sample of the photodiode trace at which the segment starts
    cls_high,     \* peaks_high as the classifier leaves it (line 145)
    cls_low,      \* peaks_low as the classifier leaves it (line 146)
    peaks_high,   \* peaks_high after line 163
    peaks_low,    \* peaks_low after the loop of lines 152-157
    peaks,        \* the merged peaks of line 164
    trial_break,  \* trial_break_idx after line 158 (the confirmed boundaries)
    stim_times,   \* the returned onset sequence
    outcome,      \* "none", "returned" or "raised"
    saved         \* what np.save wrote to stim_samples.npy

VARIABLES
    \* ---- xcorr_sp
    xpc,          \* "start", "binned" (after line 424), "done" (after line 451)
    spikes,       \* sp: spikes[t] is the cluster of the spike at timestamp t, or NoSpike
    shift,        \* the bin width in ms
    binned,       \* the table binned: cluster id -> that cluster's counts per bin
    maxlags,      \* the maxlags argument (ms)
    binned_shuff, \* the table binned_shuff
    xcorr_obs,    \* the table xcorr: lag label -> counts per pair column
    xcorr_shuff,  \* the table xcorr_shuff
    xoutcome      \* "none", "completed" or "raised"

VARIABLES
    \* ---- xcorr
    lpc,          \* "input" before the call, "done" after it
    ts_a,         \* the argument a: ascending timestamps
    ts_b,         \* the argument b: ascending timestamps
    maxlag,       \* the maxlag argument
    spacing,      \* the spacing argument
    xcorr_array,  \* the returned array
    xcorr_index,  \* the returned lag index
    loutcome      \* "none", "returned" or "raised"

stimVars == <<pc, wave, start_time, end_time, cut_start, cls_high, cls_low, peaks_high, peaks_low,
              peaks, trial_break, stim_times, outcome, saved>>

spVars == <<xpc, spikes, shift, binned, maxlags, binned_shuff, xcorr_obs,
            xcorr_shuff, xoutcome>>

lagVars == <<lpc, ts_a, ts_b, maxlag, spacing, xcorr_array, xcorr_index, loutcome>>

vars == <<stimVars, spVars, lagVars>>

----------------------------------------------------------------------------
(* Bounds of the model *)

\* the longest sequence of local maxima of a segment
MaxPeaks == 4
\* the start_time arguments (minutes)
StartTimes == {0, 1}
\* the end_time arguments: omitted, or a time after every local maximum of the segment
EndTimes == {<< >>, <<4>>}

\* the sample offset of the first local maximum of a segment
FirstSamples == {100}
\* distances between consecutive local maxima: below 500, between 500 and 5000,
\* above 10000 (all at least mpd = 200)
Gaps == {300, 600, 12000}
\* amplitudes: low class, exactly hi_cut (neither class), high class
Amps == {700, 1500, 2000}

(* Program constants *)
hi_cut == 1500
lo_cut == 600
pg_mph == 1500
edge_cut == 1500
break_gap == 5000
noise_gap == 500
group_gap == 10000
samples_per_minute == 1500000
samples_per_second == 25000

----------------------------------------------------------------------------
(* numpy / Python helpers *)

\* s[i] of Python for a position i, negative positions counting from the end
PyGet(s, i) == IF i < 0 THEN s[Len(s) + i + 1] ELSE s[i + 1]

\* s[1:-1] of Python
PySliceInner(s) == IF Len(s) <= 2 THEN << >> ELSE SubSeq(s, 2, Len(s) - 1)

\* np.diff(s)
NpDiff(s) == [k \in 1..(IF Len(s) = 0 THEN 0 ELSE Len(s) - 1) |-> s[k + 1] - s[k]]

\* np.where(mask)[0]: the Python positions, ascending, where the mask is True
NpWhere(mask) ==
    LET pos == [k \in 1..Len(mask) |-> k]
        hit == SelectSeq(pos, LAMBDA k : mask[k])
    IN [j \in 1..Len(hit) |-> hit[j] - 1]

\* np.delete(s, idx): s without the Python positions in the sequence idx
NpDelete(s, idx) ==
    LET D    == {idx[j] : j \in 1..Len(idx)}
        pos  == [k \in 1..Len(s) |-> k]
        keep == SelectSeq(pos, LAMBDA k : (k - 1) \notin D)
    IN [j \in 1..Len(keep) |-> s[keep[j]]]

\* np.sort(s)
NpSort(s) == SortSeq(s, LAMBDA a, b : a < b)

\* s[idx] of numpy for a sequence idx of Python positions
NpTake(s, idx) == [j \in 1..Len(idx) |-> s[idx[j] + 1]]

\* s + c, elementwise
NpAdd(s, c) == [k \in 1..Len(s) |-> s[k] + c]

Range(s) == {s[k] : k \in 1..Len(s)}

StrictlyIncreasing(s) == \A k \in 1..Len(s) : k < Len(s) => s[k] < s[k + 1]

\* s is a subsequence of t: t with some elements deleted, the order kept
RECURSIVE IsSubseq(_, _)
IsSubseq(s, t) ==
    IF Len(s) = 0 THEN TRUE
    ELSE IF Len(t) = 0 THEN FALSE
    ELSE IF Head(s) = Head(t) THEN IsSubseq(Tail(s), Tail(t))
    ELSE IsSubseq(s, Tail(t))

----------------------------------------------------------------------------
(* The photodiode segment *)

\* every ascending sequence of at most n local maxima
RECURSIVE WavesOfLen(_)
WavesOfLen(n) ==
    IF n = 0 THEN {<< >>}
    ELSE IF n = 1 THEN {<<[s |-> f, v |-> a]>> : f \in FirstSamples, a \in Amps}
    ELSE {Append(w, [s |-> w[Len(w)].s + g, v |-> a]) :
              w \in WavesOfLen(n - 1), g \in Gaps, a \in Amps}

Waves == UNION {WavesOfLen(n) : n \in 0..MaxPeaks}

\* detect_peaks(data.photodiode, mph, mpd=200): the local maxima of height >= mph
\* (the maxima of a segment are at least mpd apart, so mpd removes none)
DetectPeaks(w, mph) == SelectSeq(w, LAMBDA p : p.v >= mph)

\* data.photodiode[sample]
AmpAt(w, sample) == (CHOOSE p \in Range(w) : p.s = sample).v

(* PeakClassifier, lines 145-146 *)
ClassifyHigh(pk) ==
    LET sel == SelectSeq(pk, LAMBDA p : p.v > hi_cut)
    IN [k \in 1..Len(sel) |-> sel[k].s]

ClassifyLow(pk) ==
    LET sel == SelectSeq(pk, LAMBDA p : p.v > lo_cut /\ p.v < hi_cut)
    IN [k \in 1..Len(sel) |-> sel[k].s]

(* TrialBoundaryFilter, lines 150-164 *)

\* line 150: the candidate boundaries
TrialBreakIdx(ph) ==
    LET d == NpDiff(ph)
    IN NpWhere([k \in 1..Len(d) |-> d[k] > break_gap])

\* line 153: the test on the gap to the previous high peak
IsNoise(ph, idx) == PyGet(ph, idx) - PyGet(ph, idx - 1) < noise_gap

\* lines 156-157: the low peaks strictly between high peaks idx and idx + 1 deleted
DeleteLowBetween(ph, pl, idx) ==
    NpDelete(pl, NpWhere([k \in 1..Len(pl) |->
                             pl[k] > PyGet(ph, idx) /\ pl[k] < PyGet(ph, idx + 1)]))

\* lines 151-157: the loop over the candidates from position i on
RECURSIVE BoundaryLoop(_, _, _, _)
BoundaryLoop(i, tb, ph, acc) ==
    IF i >= Len(tb) THEN acc
    ELSE IF IsNoise(ph, PyGet(tb, i))
         THEN BoundaryLoop(i + 1, tb, ph,
                           [acc EXCEPT !.ind_delete = Append(@, i)])
         ELSE BoundaryLoop(i + 1, tb, ph,
                           [acc EXCEPT !.low = DeleteLowBetween(ph, @, PyGet(tb, i))])

\* lines 150-158: the confirmed boundaries and the remaining low peaks
FilterBoundaries(ph, pl) ==
    LET tb  == TrialBreakIdx(ph)
        acc == BoundaryLoop(0, tb, ph, [ind_delete |-> << >>, low |-> pl])
    IN [trial_break |-> NpDelete(tb, acc.ind_delete), low |-> acc.low]

\* lines 161-163: high peaks idx and idx + 1 of every confirmed boundary removed,
\* then the first and the last remaining high peak dropped
FilterHigh(ph, tb) ==
    PySliceInner(NpDelete(ph, NpSort(tb \o NpAdd(tb, 1))))

MergePeaksUnsorted(ph, pl) == ph \o pl

\* line 164
MergePeaks(ph, pl) == NpSort(ph \o pl)

(* EdgeExtractor, lines 167-176 *)

\* the index labels of the rows whose flag is set and whose previous row's is not
RisingEdges(pk, flag) ==
    LET pos == [k \in 1..Len(pk) |-> k]
        hit == SelectSeq(pos, LAMBDA k : flag[k] /\ ~ (k > 1 /\ flag[k - 1]))
    IN [j \in 1..Len(hit) |-> pk[hit[j]]]

FhOnsets(w, pk, st) ==
    LET high == RisingEdges(pk, [k \in 1..Len(pk) |-> AmpAt(w, pk[k]) > edge_cut])
        low  == RisingEdges(pk, [k \in 1..Len(pk) |-> AmpAt(w, pk[k]) < edge_cut])
    IN NpAdd(NpSort(high \o low), st * samples_per_minute)

(* protocol pg, lines 192-196 *)

PgGroupStartsOffByOne(pk) ==
    LET d == NpDiff(pk)
    IN NpWhere([k \in 1..Len(d) |-> d[k] > group_gap])

\* line 194: np.where(np.diff(peaks) > 10000)[0] + 1
PgGroupStarts(pk) ==
    LET d == NpDiff(pk)
    IN NpAdd(NpWhere([k \in 1..Len(d) |-> d[k] > group_gap]), 1)

PgOnsets(pk, st) ==
    NpAdd(<<PyGet(pk, 0)>> \o NpTake(pk, PgGroupStarts(pk)), st * samples_per_minute)

\* lines 131-134: the first sample of data[128, start_time * 25000 : ...], with or
\* without end_time
FhCutStart(st, et) == st * samples_per_second

\* lines 186-189: the first sample of data[128, start_time * 60 * 25000 : ...] when
\* end_time is given, of data[128, :] when it is not
PgCutStart(st, et) == IF et # << >> THEN st * samples_per_minute ELSE 0

\* the content of stim_samples.npy
NoFile == [kind |-> "none", samples |-> << >>, text |-> ""]
ArrayFile(s) == [kind |-> "array", samples |-> s, text |-> ""]
StringFile(t) == [kind |-> "string", samples |-> << >>, text |-> t]

----------------------------------------------------------------------------
(* Stimulus timing: the state machine *)

\* no call of get_stim_samples_fh or get_stim_samples_pg
StimIdle ==
    /\ pc = "idle"
    /\ wave = << >>
    /\ start_time = 0
    /\ end_time = << >>
    /\ cut_start = 0
    /\ cls_high = << >>
    /\ cls_low = << >>
    /\ peaks_high = << >>
    /\ peaks_low = << >>
    /\ peaks = << >>
    /\ trial_break = << >>
    /\ stim_times = << >>
    /\ outcome = "none"
    /\ saved = NoFile

InitStimCall ==
    /\ pc = "input"
    /\ wave \in Waves
    /\ start_time \in StartTimes
    /\ end_time = << >>
    /\ cut_start = 0
    /\ cls_high = << >>
    /\ cls_low = << >>
    /\ peaks_high = << >>
    /\ peaks_low = << >>
    /\ peaks = << >>
    /\ trial_break = << >>
    /\ stim_times = << >>
    /\ outcome = "none"
    /\ saved = NoFile

\* get_stim_samples_fh(data_path, start_time), lines 124-180
GetStimSamplesFh ==
    /\ pc = "input"
    /\ LET pk  == DetectPeaks(wave, lo_cut)
           ch  == ClassifyHigh(pk)
           cl  == ClassifyLow(pk)
           flt == FilterBoundaries(ch, cl)
           ph  == FilterHigh(ch, flt.trial_break)
           mg  == MergePeaks(ph, flt.low)
       IN /\ cls_high' = ch
          /\ cls_low' = cl
          /\ trial_break' = flt.trial_break
          /\ peaks_low' = flt.low
          /\ peaks_high' = ph
          /\ peaks' = mg
          /\ stim_times' = FhOnsets(wave, mg, start_time)
          \* line 179 saves data_folder, the directory's name
          /\ saved' = StringFile("data_folder")
          /\ outcome' = "returned"
    /\ \E et \in EndTimes :
          /\ end_time' = et
          /\ cut_start' = FhCutStart(start_time, et)
    /\ pc' = "fh"
    /\ UNCHANGED <<wave, start_time>>
    /\ UNCHANGED <<spVars, lagVars>>

\* get_stim_samples_pg(data_path, start_time), lines 183-203
GetStimSamplesPg ==
    /\ pc = "input"
    /\ LET pk == DetectPeaks(wave, pg_mph)
           sm == [k \in 1..Len(pk) |-> pk[k].s]
       IN /\ peaks' = sm
          /\ IF Len(sm) = 0
             THEN \* peaks[0] of line 193 raises IndexError
                  /\ outcome' = "raised"
                  /\ stim_times' = << >>
                  /\ saved' = NoFile
             ELSE /\ outcome' = "returned"
                  /\ stim_times' = PgOnsets(sm, start_time)
                  /\ saved' = ArrayFile(PgOnsets(sm, start_time))
    /\ \E et \in EndTimes :
          /\ end_time' = et
          /\ cut_start' = PgCutStart(start_time, et)
    /\ pc' = "pg"
    /\ UNCHANGED <<wave, start_time, cls_high, cls_low, peaks_high, peaks_low,
                   trial_break>>
    /\ UNCHANGED <<spVars, lagVars>>

NextStim == GetStimSamplesFh \/ GetStimSamplesPg

----------------------------------------------------------------------------
(* SpikeBinner: xcorr_sp, lines 420-424 *)

\* timestamps are whole ticks of 1 / TicksPerMs ms (the timestamp resolution)
TicksPerMs == 2
\* the latest timestamp (ticks)
MaxTick == 5
\* the widest bin (ms)
MaxShift == 3
\* the cluster ids of the spike table; 0 is the unclustered noise
SpikeClusters == {0, 1, 2}
\* the mark of a timestamp with no spike
NoSpike == 0 - 1

\* the rows of sp with cluster c, as their timestamps
SpikesOf(sp, c) == {t \in DOMAIN sp : sp[t] = c}

\* np.sort(sp[sp.cluster > 0].cluster.unique())
PositiveClusters(sp) == {sp[t] : t \in DOMAIN sp} \ {NoSpike, 0}

\* int(np.ceil(sp.time_ms.max())): the ceiling, in ms, of the latest timestamp
CeilMaxMs(sp) ==
    LET present == {t \in DOMAIN sp : sp[t] # NoSpike}
        last    == CHOOSE t \in present : \A u \in present : u <= t
    IN (last + TicksPerMs - 1) \div TicksPerMs

\* np.arange(0, stop, step): 0, step, 2 step, ... below stop
NpArange0(stop, step) ==
    [k \in 1..((stop + step - 1) \div step) |-> (k - 1) * step]

\* np.histogram(x, edges)[0] for timestamps x in ticks and edges in ms: bin k holds
\* edges[k] <= x < edges[k+1], and the last bin its right edge as well
NpHistogram(x, edges) ==
    [k \in 1..(IF Len(edges) = 0 THEN 0 ELSE Len(edges) - 1) |->
        Cardinality({t \in x :
            /\ edges[k] * TicksPerMs <= t
            /\ \/ t < edges[k + 1] * TicksPerMs
               \/ (k = Len(edges) - 1 /\ t = edges[k + 1] * TicksPerMs)})]

\* line 422
BinEdges(sp, sh) == NpArange0(CeilMaxMs(sp), sh)

\* a table (pandas.DataFrame): its index labels, top to bottom, and its columns
EmptyTable == [index |-> << >>, data |-> << >>]

\* lines 421-424: one column of counts per positive cluster, the rows labelled 0, 1, ...
BinSpikes(sp, sh) ==
    LET edges == BinEdges(sp, sh)
        nbins == IF Len(edges) = 0 THEN 0 ELSE Len(edges) - 1
    IN [index |-> [k \in 1..nbins |-> k - 1],
        data  |-> [c \in PositiveClusters(sp) |-> NpHistogram(SpikesOf(sp, c), edges)]]

RECURSIVE SumSeq(_)
SumSeq(s) == IF Len(s) = 0 THEN 0 ELSE Head(s) + SumSeq(Tail(s))

----------------------------------------------------------------------------
(* NullShuffler and CorrelogramEngine: xcorr_sp, lines 426-451 *)

\* the most bins of a binned table
MaxBins == 2
\* the sets of cluster ids of a binned table
ClusterIdSets == {{1, 2}, {1, 3}, {2, 3}, {1, 2, 3}, {2, 3, 5}}
\* the counts of a bin: up to 2 spikes in the tables of two clusters
CountsOf(ids) == IF Cardinality(ids) = 2 THEN {0, 1, 2} ELSE {0, 1}
\* <<maxlags, shift>> (ms), shift dividing maxlags
LagConfigs == {<<1, 1>>, <<2, 2>>}

RECURSIVE SortedSeq(_)
SortedSeq(S) ==
    IF S = {} THEN << >>
    ELSE LET m == CHOOSE x \in S : \A y \in S : x <= y
         IN <<m>> \o SortedSeq(S \ {m})

\* binned.columns: the cluster ids, ascending (line 423 adds them in that order)
Columns(tbl) == SortedSeq(DOMAIN tbl.data)

\* every binned table the binner can leave: a column per cluster, a row per bin
BinnedTables ==
    UNION {{[index |-> [k \in 1..n |-> k - 1], data |-> d] :
                d \in [ids -> [1..n -> CountsOf(ids)]]} :
           ids \in ClusterIdSets, n \in 1..MaxBins}

\* a draw that may repeat a row
AnyRowDraw(n) == [1..n -> 0..(n - 1)]

\* the values np.random.permutation(binned.index) can return
NpPermutations(n) ==
    {p \in [1..n -> 0..(n - 1)] : \A x, y \in 1..n : x # y => p[x] # p[y]}

\* the position of label l in an index
PosOf(index, l) == CHOOSE k \in 1..Len(index) : index[k] = l

\* tbl.reindex(labels): the rows of tbl in the order of labels, labelled by them
Reindex(tbl, labels) ==
    [index |-> labels,
     data  |-> [c \in DOMAIN tbl.data |->
                   [k \in 1..Len(labels) |-> tbl.data[c][PosOf(tbl.index, labels[k])]]]]

\* lines 426-428: the rows permuted, then labelled as the rows of binned
Shuffle(tbl, perm) == [Reindex(tbl, perm) EXCEPT !.index = tbl.index]

\* binned[i].nonzero()[0]
Nonzero(col) == NpWhere([k \in 1..Len(col) |-> col[k] # 0])

\* tbl.loc[labels] raises KeyError when the index has none of the labels
LocRaises(tbl, labels) ==
    Len(labels) > 0 /\ Range(labels) \cap Range(tbl.index) = {}

\* tbl.loc[labels].sum().as_matrix(): per column, the sum of the rows with these
\* labels; a label the index lacks gives a row of NaN, which the sum skips
LocSum(tbl, labels) ==
    LET cols  == Columns(tbl)
        known == Range(tbl.index)
    IN [p \in 1..Len(cols) |->
           SumSeq([k \in 1..Len(labels) |->
                      IF labels[k] \in known
                      THEN tbl.data[cols[p]][PosOf(tbl.index, labels[k])]
                      ELSE 0])]

\* list(combinations(cols, 2)) from position p on
RECURSIVE CombinationsFrom(_, _)
CombinationsFrom(cols, p) ==
    IF p >= Len(cols) THEN << >>
    ELSE [q \in 1..(Len(cols) - p) |-> <<cols[p], cols[p + q]>>]
         \o CombinationsFrom(cols, p + 1)

\* list(combinations(binned.columns, 2))
Combinations2(cols) == CombinationsFrom(cols, 1)

\* line 430: np.arange(-maxlags, maxlags + 1, shift)
LagIndex(ml, sh) ==
    [k \in 1..((2 * ml + sh) \div sh) |-> (k - 1) * sh - ml]

\* line 438: np.arange(0, maxlags + 1, shift)
Lags(ml, sh) == NpArange0(ml + 1, sh)

\* lines 432-433: pd.DataFrame(0, index, columns)
ZeroTable(ml, sh, cols) ==
    [l \in Range(LagIndex(ml, sh)) |-> [p \in 1..Len(Combinations2(cols)) |-> 0]]

\* v[i:] of Python
PySliceFrom(v, i) == IF i >= Len(v) THEN << >> ELSE SubSeq(v, i + 1, Len(v))

\* the columns xc.columns[count:count + width] as positions
SliceTargets(ncols, count, width) ==
    {p \in 1..ncols : count < p /\ p <= count + width}

\* xc.loc[lbl, xc.columns[count:count + width]] = values sets one value per
\* selected cell; numpy lays a single value over a selection of any other size
\* (broadcasting); any other number of values raises ValueError
Broadcasts(ncols, count, width, values) ==
    Len(values) = 1 /\ Cardinality(SliceTargets(ncols, count, width)) # 1

CanSet(ncols, count, width, values) ==
    \/ Len(values) = Cardinality(SliceTargets(ncols, count, width))
    \/ Len(values) = 1

SetCells(xc, lbl, ncols, count, width, values) ==
    [xc EXCEPT ![lbl] =
        [p \in 1..ncols |->
            IF p \in SliceTargets(ncols, count, width)
            THEN IF Len(values) = 1 THEN values[1] ELSE values[p - count]
            ELSE @[p]]]

\* lines 439-449 for the reference cluster i and the lag j
LagStep(acc, tbl, shf, i, j, sh) ==
    LET cols   == Columns(tbl)
        ncols  == Len(Combinations2(cols))
        width  == cols[Len(cols)] - i
        nz     == Nonzero(tbl.data[i])
        fwd    == NpAdd(nz, j \div sh)
        bwd    == NpAdd(nz, 0 - (j \div sh))
    IN IF \/ LocRaises(tbl, fwd) \/ LocRaises(tbl, bwd)
          \/ LocRaises(shf, fwd) \/ LocRaises(shf, bwd)
       THEN [acc EXCEPT !.raised = TRUE]
       ELSE IF ~ CanSet(ncols, acc.count, width, PySliceFrom(cols, i))
       THEN [acc EXCEPT !.raised = TRUE]
       ELSE LET add  == PySliceFrom(LocSum(tbl, fwd), i)
                sub  == PySliceFrom(LocSum(tbl, bwd), i)
                addS == PySliceFrom(LocSum(shf, fwd), i)
                subS == PySliceFrom(LocSum(shf, bwd), i)
            IN [obs    |-> SetCells(SetCells(acc.obs, j, ncols, acc.count, width, add),
                                    0 - j, ncols, acc.count, width, sub),
                shuff  |-> SetCells(SetCells(acc.shuff, j, ncols, acc.count, width, addS),
                                    0 - j, ncols, acc.count, width, subS),
                count  |-> acc.count,
                bcast  |-> acc.bcast \/ Broadcasts(ncols, acc.count, width, add),
                raised |-> FALSE]

\* lines 438-449: the lags from position q on
RECURSIVE LagLoop(_, _, _, _, _, _, _)
LagLoop(acc, tbl, shf, i, lags, q, sh) ==
    IF q > Len(lags) \/ acc.raised THEN acc
    ELSE LagLoop(LagStep(acc, tbl, shf, i, lags[q], sh), tbl, shf, i, lags, q + 1, sh)

\* lines 436-451: the reference clusters from position c on
RECURSIVE ClusterLoop(_, _, _, _, _, _)
ClusterLoop(acc, tbl, shf, c, ml, sh) ==
    LET cols == Columns(tbl)
    IN IF c > Len(cols) \/ acc.raised THEN acc
       ELSE LET done == LagLoop(acc, tbl, shf, cols[c], Lags(ml, sh), 1, sh)
            IN ClusterLoop([done EXCEPT !.count = @ + cols[Len(cols)] - cols[c]],
                           tbl, shf, c + 1, ml, sh)

\* lines 430-451: the tables, whether a write broadcast a single value, and whether
\* the call raised
Correlate(tbl, shf, ml, sh) ==
    ClusterLoop([obs    |-> ZeroTable(ml, sh, Columns(tbl)),
                 shuff  |-> ZeroTable(ml, sh, Columns(tbl)),
                 count  |-> 0,
                 bcast  |-> FALSE,
                 raised |-> FALSE],
                tbl, shf, 1, ml, sh)

\* the position of cluster c among the columns
ColPos(tbl, c) == PosOf(Columns(tbl), c)

\* lines 437, 439: the count of cluster j at the bins k after the nonzero bins of
\* the reference cluster i
RuleAdd(tbl, i, j, k) ==
    LocSum(tbl, NpAdd(Nonzero(tbl.data[i]), k))[ColPos(tbl, j)]

\* lines 437, 440: the same k bins before them
RuleSub(tbl, i, j, k) ==
    LocSum(tbl, NpAdd(Nonzero(tbl.data[i]), 0 - k))[ColPos(tbl, j)]

\* a lookup of lines 439-443 with reference cluster i and a lag of k bins raises
LookupRaises(tbl, shf, i, k) ==
    \/ LocRaises(tbl, NpAdd(Nonzero(tbl.data[i]), k))
    \/ LocRaises(tbl, NpAdd(Nonzero(tbl.data[i]), 0 - k))
    \/ LocRaises(shf, NpAdd(Nonzero(tbl.data[i]), k))
    \/ LocRaises(shf, NpAdd(Nonzero(tbl.data[i]), 0 - k))

----------------------------------------------------------------------------
(* xcorr_sp: the state machine *)

\* no call of xcorr_sp
SpIdle ==
    /\ xpc = "idle"
    /\ spikes = << >>
    /\ shift = 1
    /\ maxlags = 0
    /\ binned = EmptyTable
    /\ binned_shuff = EmptyTable
    /\ xcorr_obs = << >>
    /\ xcorr_shuff = << >>
    /\ xoutcome = "none"

\* xcorr_sp is called with a spike table that has a spike after time 0
InitSpCall ==
    /\ xpc = "start"
    /\ spikes \in {sp \in [0..MaxTick -> SpikeClusters \cup {NoSpike}] :
                      \E t \in 1..MaxTick : sp[t] # NoSpike}
    /\ shift \in 1..MaxShift
    /\ maxlags = 0
    /\ binned = EmptyTable
    /\ binned_shuff = EmptyTable
    /\ xcorr_obs = << >>
    /\ xcorr_shuff = << >>
    /\ xoutcome = "none"

\* xcorr_sp has reached line 426 with the table binned; the spike table is not
\* read again
InitSpBinned ==
    /\ xpc = "binned"
    /\ spikes = << >>
    /\ \E cfg \in LagConfigs : maxlags = cfg[1] /\ shift = cfg[2]
    /\ binned \in BinnedTables
    /\ binned_shuff = EmptyTable
    /\ xcorr_obs = << >>
    /\ xcorr_shuff = << >>
    /\ xoutcome = "none"

\* xcorr_sp, lines 420-424
XcorrSpBin ==
    /\ xpc = "start"
    /\ binned' = BinSpikes(spikes, shift)
    /\ xpc' = "binned"
    /\ UNCHANGED <<spikes, shift, maxlags, binned_shuff, xcorr_obs, xcorr_shuff,
                   xoutcome>>
    /\ UNCHANGED <<stimVars, lagVars>>

\* xcorr_sp, lines 426-451.  An exception discards the tables xcorr and
\* xcorr_shuff.  Where a write lays a single value over several cells, the pandas
\* at hand either broadcasts it or raises.
XcorrSpCorrelate ==
    /\ xpc = "binned"
    /\ \E perm \in NpPermutations(Len(binned.index)) :
           LET shf == Shuffle(binned, perm)
               res == Correlate(binned, shf, maxlags, shift)
           IN /\ binned_shuff' = shf
              /\ \E broadcasting \in (IF res.bcast THEN BOOLEAN ELSE {TRUE}) :
                     IF res.raised \/ ~ broadcasting
                     THEN /\ xoutcome' = "raised"
                          /\ xcorr_obs' = << >>
                          /\ xcorr_shuff' = << >>
                     ELSE /\ xoutcome' = "completed"
                          /\ xcorr_obs' = res.obs
                          /\ xcorr_shuff' = res.shuff
    /\ xpc' = "done"
    /\ UNCHANGED <<spikes, shift, maxlags, binned>>
    /\ UNCHANGED <<stimVars, lagVars>>

----------------------------------------------------------------------------
(* PairwiseXCorr: xcorr, lines 355-382 *)

\* the latest timestamp of a and b
MaxTime == 3
\* <<maxlag, spacing>>, spacing dividing maxlag
XcorrConfigs == {<<1, 1>>, <<2, 1>>, <<2, 2>>, <<4, 2>>}

\* the ascending timestamp sequences with timestamps in 0..MaxTime
TimestampSeqs == {SortedSeq(S) : S \in SUBSET (0..MaxTime)}

\* Timestamps are whole numbers and a window edge is a whole number or a whole
\* number plus 0.0001: both are held doubled, the 0.0001 as 1, which keeps their order.
Doubled(s, c) == [k \in 1..Len(s) |-> 2 * (s[k] + c)]

\* np.histogram(x, edges)[0]: bin k holds edges[k] <= x < edges[k+1], and the last
\* bin its right edge as well
Histogram(x, edges) ==
    [k \in 1..(IF Len(edges) = 0 THEN 0 ELSE Len(edges) - 1) |->
        Cardinality({m \in 1..Len(x) :
            /\ edges[k] <= x[m]
            /\ \/ x[m] < edges[k + 1]
               \/ (k = Len(edges) - 1 /\ x[m] = edges[k + 1])})]

\* h[0::2].sum()
SumEvenBins(h) == SumSeq([m \in 1..((Len(h) + 1) \div 2) |-> h[2 * m - 1]])

\* lines 371-372, 376: the b in the windows [a - i, a - (i - spacing))
HistSub(a, b, i, sp) ==
    SumEvenBins(Histogram(Doubled(b, 0),
                          NpSort(Doubled(a, 0 - (i - sp)) \o Doubled(a, 0 - i))))

\* lines 373-374, 377: the b in the windows [a + (i - spacing), a + i + 0.0001)
HistAdd(a, b, i, sp) ==
    SumEvenBins(Histogram(Doubled(b, 0),
                          NpSort(Doubled(a, i - sp) \o NpAdd(Doubled(a, i), 1))))

\* line 368: np.intersect1d(a, b).size
Common(a, b) == Cardinality(Range(a) \cap Range(b))

\* line 364: np.zeros((maxlag/spacing * 2) + 1), the division an integer division
XcorrLength(ml, sp) == (ml \div sp) * 2 + 1

\* line 365: np.arange(-maxlag, maxlag + 1)
XcorrIndex(ml) == [k \in 1..(2 * ml + 1) |-> k - 1 - ml]

\* arr[pos] = v for a Python position pos >= 0: IndexError past the end
SetItem(acc, pos, v) ==
    IF acc.raised THEN acc
    ELSE IF pos >= Len(acc.arr) THEN [acc EXCEPT !.raised = TRUE]
    ELSE [acc EXCEPT !.arr[pos + 1] = v]

Abs(x) == IF x < 0 THEN 0 - x ELSE x

\* lines 367-380 for the lag i
XcorrStep(acc, a, b, i, ml, sp) ==
    IF i = 0
    THEN SetItem(acc, ml, Common(a, b))
    ELSE SetItem(SetItem(acc, Abs(i - ml), HistSub(a, b, i, sp)),
                 i + ml, HistAdd(a, b, i, sp))

\* lines 366-380: the lags np.arange(0, maxlag + 1, spacing) from position q on
RECURSIVE XcorrLoop(_, _, _, _, _, _)
XcorrLoop(acc, a, b, q, ml, sp) ==
    IF q > Len(NpArange0(ml + 1, sp)) \/ acc.raised THEN acc
    ELSE XcorrLoop(XcorrStep(acc, a, b, NpArange0(ml + 1, sp)[q], ml, sp),
                   a, b, q + 1, ml, sp)

\* lines 364-382
Xcorr(a, b, ml, sp) ==
    XcorrLoop([arr |-> [k \in 1..XcorrLength(ml, sp) |-> 0], raised |-> FALSE],
              a, b, 1, ml, sp)

\* no call of xcorr
LagIdle ==
    /\ lpc = "idle"
    /\ ts_a = << >>
    /\ ts_b = << >>
    /\ maxlag = 0
    /\ spacing = 1
    /\ xcorr_array = << >>
    /\ xcorr_index = << >>
    /\ loutcome = "none"

\* xcorr is called with the spikes of two clusters; a cluster has a spike
InitXcorrCall ==
    /\ lpc = "input"
    /\ ts_a \in TimestampSeqs \ {<< >>}
    /\ ts_b \in TimestampSeqs
    /\ \E cfg \in XcorrConfigs : maxlag = cfg[1] /\ spacing = cfg[2]
    /\ xcorr_array = << >>
    /\ xcorr_index = << >>
    /\ loutcome = "none"

\* xcorr(a, b, maxlag, spacing), lines 355-382
XcorrCall ==
    /\ lpc = "input"
    /\ LET res == Xcorr(ts_a, ts_b, maxlag, spacing)
       IN IF res.raised
          THEN /\ loutcome' = "raised"
               /\ xcorr_array' = << >>
               /\ xcorr_index' = << >>
          ELSE /\ loutcome' = "returned"
               /\ xcorr_array' = res.arr
               /\ xcorr_index' = XcorrIndex(maxlag)
    /\ lpc' = "done"
    /\ UNCHANGED <<ts_a, ts_b, maxlag, spacing>>
    /\ UNCHANGED <<stimVars, spVars>>

----------------------------------------------------------------------------
(* The specifications *)

\* the stimulus timing pipeline: one call of get_stim_samples_fh or _pg
InitStim == InitStimCall /\ SpIdle /\ LagIdle
SpecStim == InitStim /\ [][NextStim]_vars

\* the spike binner of xcorr_sp
NextBin == XcorrSpBin
InitBin == StimIdle /\ InitSpCall /\ LagIdle
SpecBin == InitBin /\ [][NextBin]_vars

\* the shuffler and the correlogram engine of xcorr_sp, from a binned table on
NextCorr == XcorrSpCorrelate
InitCorr == StimIdle /\ InitSpBinned /\ LagIdle
SpecCorr == InitCorr /\ [][NextCorr]_vars

\* the timestamp based cross-correlation
NextLag == XcorrCall
InitLag == StimIdle /\ SpIdle /\ InitXcorrCall
SpecLag == InitLag /\ [][NextLag]_vars

----------------------------------------------------------------------------
(* Stimulus timing: the claims *)

\* C2: every onset sequence get_stim_samples_fh or get_stim_samples_pg returns is
\* strictly increasing, so no sample offset occurs in it twice.
OnsetsStrictlyIncreasing ==
    outcome = "returned" => StrictlyIncreasing(stim_times)

\* fh returned onsets of both classes: a rising edge into high and one into low
OnsetsWitness ==
    /\ pc = "fh"
    /\ outcome = "returned"
    /\ \E k \in 1..Len(stim_times) : \E j \in 1..Len(stim_times) :
           /\ stim_times[k] - start_time * samples_per_minute \in Range(peaks_high)
           /\ stim_times[j] - start_time * samples_per_minute \in Range(peaks_low)

\* C5: the filter only deletes: the filtered high (low) peaks are a subsequence of
\* the classifier's high (low) peaks, and the merged peak list is ascending.
FilterOnlyDeletes ==
    pc = "fh" =>
        /\ IsSubseq(peaks_high, cls_high)
        /\ IsSubseq(peaks_low, cls_low)
        /\ StrictlyIncreasing(peaks)
        /\ Range(peaks) = Range(peaks_high) \cup Range(peaks_low)

\* a confirmed boundary deleted a low peak
FilterWitness ==
    /\ pc = "fh"
    /\ Len(trial_break) > 0
    /\ Len(peaks_low) < Len(cls_low)

\* C8: with fewer than 2 classified high peaks both functions end in an error
\* raised to the caller: no onset sequence is returned and no boundary is made.
InsufficientPeaksRaises ==
    /\ (pc = "fh" /\ Len(cls_high) < 2) =>
           (outcome = "raised" /\ trial_break = << >>)
    /\ (pc = "pg" /\ Len(peaks) < 2) => outcome = "raised"

\* C9: the content written to stim_samples.npy is the onset sequence returned.
SavedIsReturned ==
    outcome = "returned" => saved = ArrayFile(stim_times)

\* C10: a candidate boundary idx is discarded, and no low peak deleted for it, only
\* when the gap from the previous high peak is below 500; in every other case, the
\* first high peak included, it is confirmed, the low peaks strictly between high
\* peaks idx and idx + 1 are deleted and the high peaks idx and idx + 1 are removed.
BoundaryRule ==
    pc = "fh" =>
        \A idx \in Range(TrialBreakIdx(cls_high)) :
            LET here    == cls_high[idx + 1]
                next    == cls_high[idx + 2]
                between == {x \in Range(cls_low) : x > here /\ x < next}
                noise   == idx >= 1 /\ here - cls_high[idx] < noise_gap
            IN IF noise
               THEN /\ idx \notin Range(trial_break)
               ELSE /\ idx \in Range(trial_break)
                    /\ between \cap Range(peaks_low) = {}
                    /\ here \notin Range(peaks_high)
                    /\ next \notin Range(peaks_high)

----------------------------------------------------------------------------
(* xcorr_sp: the claims *)

\* C1: for every cluster with id > 0 the binned counts sum to the number of that
\* cluster's spikes in [0, max spike time]: no spike is left out of the bins.
BinnedSumsToSpikeCount ==
    (xpc = "binned" /\ spikes # << >>) =>
        \A c \in DOMAIN binned.data :
            SumSeq(binned.data[c]) = Cardinality(SpikesOf(spikes, c))

\* the number of times v occurs in s
Occurrences(s, v) == Cardinality({k \in 1..Len(s) : s[k] = v})

\* C3: for every pair of clusters (i, j) and every lag k, the rule's value with i
\* as reference and j as paired cluster at lag +k equals its value with j as
\* reference and i as paired cluster at lag -k.
CorrelogramSwapSymmetric ==
    (xpc = "done" /\ xoutcome = "completed") =>
        \A i \in DOMAIN binned.data : \A j \in DOMAIN binned.data \ {i} :
            \A q \in 1..Len(Lags(maxlags, shift)) :
                LET k == Lags(maxlags, shift)[q] \div shift
                IN (~ LookupRaises(binned, binned, i, k)
                    /\ ~ LookupRaises(binned, binned, j, k)) =>
                       RuleAdd(binned, i, j, k) = RuleSub(binned, j, i, k)

\* C4: each cluster's shuffled series is a permutation of its binned series (the
\* same counts, each as many times), and the shuffled table keeps the index labels
\* and the cluster columns of the observed table.
ShuffleIsPermutation ==
    xpc = "done" =>
        /\ binned_shuff.index = binned.index
        /\ DOMAIN binned_shuff.data = DOMAIN binned.data
        /\ \A c \in DOMAIN binned.data :
               /\ Len(binned_shuff.data[c]) = Len(binned.data[c])
               /\ \A v \in Range(binned.data[c]) \cup Range(binned_shuff.data[c]) :
                      Occurrences(binned_shuff.data[c], v) = Occurrences(binned.data[c], v)

\* the shuffle moved the counts of a cluster in a call that completed
ShuffleWitness ==
    /\ xpc = "done"
    /\ xoutcome = "completed"
    /\ \E c \in DOMAIN binned.data : binned_shuff.data[c] # binned.data[c]

\* C6: for every set of positive cluster ids, every pair (i, j), i < j, and every
\* lag, the observed table's entries at rows +lag and -lag of column (i, j) are the
\* rule's sums for reference i and paired cluster j (stated for the calls in which
\* every lag lookup finds a bin, so that no KeyError ends the call).
PairEntriesCorrect ==
    (/\ xpc = "done"
     /\ \A i \in DOMAIN binned.data : \A q \in 1..Len(Lags(maxlags, shift)) :
            ~ LookupRaises(binned, binned_shuff, i, Lags(maxlags, shift)[q] \div shift))
    => /\ xoutcome = "completed"
       /\ \A p \in 1..Len(Combinations2(Columns(binned))) :
              \A q \in 1..Len(Lags(maxlags, shift)) :
                  LET pair == Combinations2(Columns(binned))[p]
                      lag  == Lags(maxlags, shift)[q]
                  IN /\ xcorr_obs[lag][p] =
                            RuleAdd(binned, pair[1], pair[2], lag \div shift)
                     /\ xcorr_obs[0 - lag][p] =
                            RuleSub(binned, pair[1], pair[2], lag \div shift)

----------------------------------------------------------------------------
(* xcorr: the claims *)

\* C7: for spacing dividing maxlag the returned correlogram has 2 maxlag / spacing
\* + 1 entries, its lag index as many, running from -maxlag to +maxlag in steps of
\* spacing, and the counts of lags -i and +i are at the positions labelled -i, +i.
LagRangeSymmetric ==
    (lpc = "done" /\ maxlag % spacing = 0) =>
        /\ loutcome = "returned"
        /\ Len(xcorr_array) = (2 * maxlag) \div spacing + 1
        /\ Len(xcorr_index) = Len(xcorr_array)
        /\ \A k \in 1..Len(xcorr_index) : xcorr_index[k] = (k - 1) * spacing - maxlag
        /\ \A q \in 1..Len(NpArange0(maxlag + 1, spacing)) :
               LET i == NpArange0(maxlag + 1, spacing)[q]
               IN IF i = 0
                  THEN xcorr_array[PosOf(xcorr_index, 0)] = Common(ts_a, ts_b)
                  ELSE /\ xcorr_array[PosOf(xcorr_index, i)] =
                              HistAdd(ts_a, ts_b, i, spacing)
                       /\ xcorr_array[PosOf(xcorr_index, 0 - i)] =
                              HistSub(ts_a, ts_b, i, spacing)

----------------------------------------------------------------------------
(* Absolute onset coordinates *)

\* C11: every onset returned by get_stim_samples_fh or get_stim_samples_pg, for
\* any start_time and with end_time given or omitted, is the sample of the full
\* photodiode trace of the peak it marks: the segment-relative onset plus the
\* sample at which the segment was cut from the trace.
OnsetsAreAbsolute ==
    /\ (pc = "fh" /\ outcome = "returned")
           => stim_times = NpAdd(FhOnsets(wave, peaks, 0), cut_start)
    /\ (pc = "pg" /\ outcome = "returned")
           => stim_times = NpAdd(PgOnsets(peaks, 0), cut_start)

====
